---- MODULE Spec2Model ----
(***************************************************************************)
(* Model of webhook_server.py: a Flask process with two webhook handlers   *)
(* (POST /typeform-webhook, POST /stripe-webhook) and two health checks,   *)
(* sharing one Supabase client created at start-up.  The remote 'clients'  *)
(* table is the only mutable state; every handler issues at most one       *)
(* storage call, so a handler is one atomic step at that call.             *)
(***************************************************************************)
EXTENDS Naturals, Sequences, FiniteSets

VARIABLES
    env,        \* start-up environment: SUPABASE_URL / SUPABASE_SERVICE_KEY set, create_client succeeds
    supabase,   \* TRUE iff the module-level client is not None
    clients,    \* rows of the remote table 'clients', in insertion order
    req,        \* the request handled by the last step
    resp,       \* the response returned for it
    calls,      \* the storage calls issued while handling it, with their outcome
    payments    \* history: e-mails of the checkout-completed events answered 200 so far

vars == <<env, supabase, clients, req, resp, calls, payments>>

\* ------------------------------------------------------------------ bounds
MaxClients == 3
MaxForms == 1

\* ------------------------------------------------------- JSON value kinds
\* A key that is not in a dict, and a key whose value is JSON null.
NoKey == "<absent>"
Null == "<null>"

\* Mutation: the lookup without its default.
PyGet_plain(value, default) == value

\* dict.get(key, default): the default only when the key is absent.
PyGet(value, default) == IF value = NoKey THEN default ELSE value

\* Mutation: the check of the extracted e-mail is dropped.
Truthy_unchecked(value) == TRUE

\* Python truthiness of an extracted e-mail value (None and '' are falsy).
Truthy(value) == value \notin {NoKey, Null, ""}

\* ---------------------------------------------------------------- start-up
\* Mutation: one credential is enough.
SupabaseInit_either(e) == (e.url \/ e.key) /\ e.create_ok

\* if SUPABASE_URL and SUPABASE_SERVICE_KEY: supabase = create_client(...),
\* left None when create_client raises.
SupabaseInit(e) == e.url /\ e.key /\ e.create_ok

\* ------------------------------------------------------------ storage layer
\* Mutation: a row is stored only when its e-mail is new.
Insert_unique(rows, client_data) ==
    IF \E i \in 1..Len(rows) : rows[i].contact_email = client_data.contact_email
    THEN rows
    ELSE Append(rows, [id                   |-> Len(rows) + 1,
                       business_name        |-> client_data.business_name,
                       contact_email        |-> client_data.contact_email,
                       prospecting_niche    |-> client_data.prospecting_niche,
                       prospecting_location |-> client_data.prospecting_location,
                       subscription_status  |-> client_data.subscription_status,
                       monthly_plan         |-> client_data.monthly_plan])

\* supabase.table('clients').insert(client_data).execute(): the table assigns the id.
Insert(rows, client_data) ==
    Append(rows, [id                   |-> Len(rows) + 1,
                  business_name        |-> client_data.business_name,
                  contact_email        |-> client_data.contact_email,
                  prospecting_niche    |-> client_data.prospecting_niche,
                  prospecting_location |-> client_data.prospecting_location,
                  subscription_status  |-> client_data.subscription_status,
                  monthly_plan         |-> client_data.monthly_plan])

\* Mutation: the update carries no filter.
Update_unfiltered(rows, customer_email) ==
    [i \in 1..Len(rows) |-> [rows[i] EXCEPT !.subscription_status = "active"]]

\* Mutation: the update is an upsert, storing a paid row when none matches.
Update_upsert(rows, customer_email) ==
    IF \E i \in 1..Len(rows) : rows[i].contact_email = customer_email
    THEN [i \in 1..Len(rows) |->
            IF rows[i].contact_email = customer_email
            THEN [rows[i] EXCEPT !.subscription_status = "active"]
            ELSE rows[i]]
    ELSE Append(rows, [id                   |-> Len(rows) + 1,
                       business_name        |-> "Unknown Business",
                       contact_email        |-> customer_email,
                       prospecting_niche    |-> "Not specified",
                       prospecting_location |-> "Not specified",
                       subscription_status  |-> "active",
                       monthly_plan         |-> "pro"])

\* Mutation: the match ignores letter case.
Lower(email) == IF email = "A@B.com" THEN "a@b.com" ELSE email

Update_ignoring_case(rows, customer_email) ==
    [i \in 1..Len(rows) |->
        IF Lower(rows[i].contact_email) = Lower(customer_email)
        THEN [rows[i] EXCEPT !.subscription_status = "active"]
        ELSE rows[i]]

\* .update({'subscription_status': 'active'}).eq('contact_email', customer_email).execute()
Update(rows, customer_email) ==
    [i \in 1..Len(rows) |->
        IF rows[i].contact_email = customer_email
        THEN [rows[i] EXCEPT !.subscription_status = "active"]
        ELSE rows[i]]

\* A storage call either is applied and returns, or raises and applies nothing;
\* an insert that returns may carry the new row (response.data) or no data.
InsertOutcomes == {"row", "nodata", "raised"}
UpdateOutcomes == {"done", "raised"}

\* ---------------------------------------------------------------- responses
\* jsonify(...), status
Response(status, error, client_id) ==
    [status |-> status, error |-> error, client_id |-> client_id]

\* What a handler leaves behind: its response, the table, the storage calls it issued.
Result(r, rows, issued) == [resp |-> r, clients |-> rows, calls |-> issued]

\* Mutation: the row of a failed insert is stored all the same.
Caught_stored(e, rows, issued) ==
    [resp |-> Response(500, e, 0),
     clients |-> IF issued # <<>> /\ issued[1].op = "insert"
                 THEN Insert(rows, issued[1].data)
                 ELSE rows,
     calls |-> issued]

\* except Exception as e: return jsonify({'error': str(e)}), 500
Caught(e, rows, issued) == Result(Response(500, e, 0), rows, issued)

\* ------------------------------------------------- POST /typeform-webhook
\* answers[i] is usable by .get only when it is a dict.
AllDicts(list) == \A i \in 1..4 : list[i].kind = "dict"

\* Mutation: the record starts as paid.
ClientData_active(list) ==
    [business_name        |-> PyGet(list[1].text, "Unknown Business"),
     contact_email        |-> PyGet(list[2].email, "no-email@example.com"),
     prospecting_niche    |-> PyGet(list[3].text, "Not specified"),
     prospecting_location |-> PyGet(list[4].text, "Not specified"),
     subscription_status  |-> "active",
     monthly_plan         |-> "pro"]

ClientData(list) ==
    [business_name        |-> PyGet(list[1].text, "Unknown Business"),
     contact_email        |-> PyGet(list[2].email, "no-email@example.com"),
     prospecting_niche    |-> PyGet(list[3].text, "Not specified"),
     prospecting_location |-> PyGet(list[4].text, "Not specified"),
     subscription_status  |-> "trialing",
     monthly_plan         |-> "pro"]

InsertCall(client_data, outcome) ==
    <<[op |-> "insert", table |-> "clients", data |-> client_data, outcome |-> outcome]>>

\* if not data: return jsonify({'error': 'No data received'}), 400
NoData(rows) == Result(Response(400, "No data received", 0), rows, <<>>)

\* Mutation: an incomplete form is acknowledged as a success.
Incomplete_accepted(rows) == Result(Response(200, NoKey, 0), rows, <<>>)

\* if len(answers) < 4: return jsonify({'error': 'Incomplete form submission'}), 400
Incomplete(rows) == Result(Response(400, "Incomplete form submission", 0), rows, <<>>)

\* if not supabase: return jsonify({'error': 'Database connection failed'}), 500
NotConnected(rows) == Result(Response(500, "Database connection failed", 0), rows, <<>>)

handle_typeform_submission(connected, rows, r, outcome) ==
    IF ~connected
    THEN NotConnected(rows)
    ELSE IF r.body = "invalid"
    THEN Caught("BadRequest", rows, <<>>)
    ELSE IF r.body \in {"null", "empty"}
    THEN NoData(rows)
    ELSE IF r.body # "dict"
    THEN Caught("AttributeError", rows, <<>>)
    ELSE IF r.form_response \notin {NoKey, "dict"}
    THEN Caught("AttributeError", rows, <<>>)
    ELSE IF r.form_response = "dict" /\ r.answers \notin {NoKey, "list"}
    THEN Caught("TypeError", rows, <<>>)
    ELSE IF r.form_response = NoKey \/ r.answers = NoKey \/ Len(r.list) < 4
    THEN Incomplete(rows)
    ELSE IF ~AllDicts(r.list)
    THEN Caught("AttributeError", rows, <<>>)
    ELSE IF outcome = "raised"
    THEN Caught("StorageError", rows, InsertCall(ClientData(r.list), outcome))
    ELSE Result(Response(200, NoKey,
                         IF outcome = "row" THEN Len(rows) + 1 ELSE 0),
                Insert(rows, ClientData(r.list)),
                InsertCall(ClientData(r.list), outcome))

\* --------------------------------------------------- POST /stripe-webhook
Checkout == "checkout.session.completed"

\* data.get('data', {}).get('object', {}).get('customer_details', {}).get('email'):
\* raises as soon as a segment that is present is not a dict.
PathRaises(r) ==
    \/ r.data \notin {NoKey, "dict"}
    \/ r.data = "dict" /\ r.object \notin {NoKey, "dict"}
    \/ r.data = "dict" /\ r.object = "dict" /\ r.customer_details \notin {NoKey, "dict"}

CustomerEmail(r) ==
    IF r.data = "dict" /\ r.object = "dict" /\ r.customer_details = "dict"
    THEN r.email
    ELSE NoKey

UpdateCall(customer_email, outcome) ==
    <<[op |-> "update", table |-> "clients", eq |-> customer_email,
       data |-> [subscription_status |-> "active"], outcome |-> outcome]>>

handle_stripe_payment(connected, rows, r, outcome) ==
    IF ~connected
    THEN NotConnected(rows)
    ELSE IF r.body = "invalid"
    THEN Caught("BadRequest", rows, <<>>)
    ELSE IF r.body \notin {"dict", "empty"}
    THEN Caught("AttributeError", rows, <<>>)
    ELSE IF r.body = "empty" \/ r.type # Checkout
    THEN Result(Response(200, NoKey, 0), rows, <<>>)
    ELSE IF PathRaises(r)
    THEN Caught("AttributeError", rows, <<>>)
    ELSE IF ~Truthy(CustomerEmail(r))
    THEN Result(Response(200, NoKey, 0), rows, <<>>)
    ELSE IF outcome = "raised"
    THEN Caught("StorageError", rows, UpdateCall(CustomerEmail(r), outcome))
    ELSE Result(Response(200, NoKey, 0),
                Update(rows, CustomerEmail(r)),
                UpdateCall(CustomerEmail(r), outcome))

\* --------------------------------------------------------- GET / and /health
home(connected) ==
    [status |-> 200, error |-> NoKey, client_id |-> 0, supabase_connected |-> connected]

health == Response(200, NoKey, 0)

\* ------------------------------------------------------------------- inputs
Typeform == "/typeform-webhook"
Stripe == "/stripe-webhook"

Ans(text, email) == [kind |-> "dict", text |-> text, email |-> email]
NotADict == [kind |-> "str", text |-> NoKey, email |-> NoKey]

\* The four form questions, each answered under its key or with the key missing;
\* the e-mail question also answered in another letter case or under the wrong key.
Answer1 == {Ans("Acme Dental", NoKey), Ans(NoKey, NoKey)}
Answer2 == {Ans(NoKey, "a@b.com"), Ans(NoKey, "A@B.com"), Ans("a@b.com", NoKey)}
Answer3 == {Ans("Dentists", NoKey), Ans(NoKey, NoKey)}
Answer4 == {Ans("Austin TX", NoKey), Ans(NoKey, "a@b.com")}

Complete == <<Ans("Acme Dental", NoKey), Ans(NoKey, "a@b.com"),
              Ans("Dentists", NoKey), Ans("Austin TX", NoKey)>>

\* Every combination of present and missing keys over the four questions.
FourAnswers ==
    {<<a1, a2, a3, a4>> : a1 \in Answer1, a2 \in Answer2, a3 \in Answer3, a4 \in Answer4}

\* The complete form, with the e-mail question answered in each way.
ByEmail == {[Complete EXCEPT ![2] = a] : a \in Answer2}

\* Answers after the fourth: any content, a dict or not.
Trailing == {<<Ans("extra", "x@y.com")>>, <<NotADict, Ans(NoKey, "A@B.com")>>}

\* Fewer than four answers, of any content.
TooFew == {SubSeq(Complete, 1, n) : n \in 0..3} \cup {<<NotADict, NotADict>>}

\* Four answers, one of which is not a dict.
Malformed == {[Complete EXCEPT ![i] = NotADict] : i \in 1..4}

TypeformRequest(body, form_response, answers, list) ==
    [endpoint |-> Typeform, body |-> body, form_response |-> form_response,
     answers |-> answers, list |-> list]

Envelopes ==
    {TypeformRequest(b, NoKey, NoKey, <<>>) : b \in {"invalid", "null", "empty", "list", "dict"}}
    \cup {TypeformRequest("dict", f, NoKey, <<>>) : f \in {Null, "str"}}
    \cup {TypeformRequest("dict", "dict", a, <<>>) : a \in {NoKey, Null}}

Submissions(lists) == {TypeformRequest("dict", "dict", "list", l) : l \in lists}

\* Submissions interleaved with payment events: the e-mail question varies.
TypeformRequests ==
    Envelopes \cup Submissions(ByEmail \cup {l \o t : l \in ByEmail, t \in Trailing}
                               \cup TooFew \cup Malformed)

\* Submissions alone: every question varies.
FormRequests ==
    Envelopes \cup Submissions(FourAnswers \cup {l \o t : l \in FourAnswers, t \in Trailing}
                               \cup TooFew \cup Malformed)

StripeRequest(body, type, data, object, customer_details, email) ==
    [endpoint |-> Stripe, body |-> body, type |-> type, data |-> data,
     object |-> object, customer_details |-> customer_details, email |-> email]

EventTypes == {Checkout, "invoice.paid", NoKey}
Emails == {"a@b.com", "A@B.com"}

StripeRequests ==
    {StripeRequest(b, NoKey, NoKey, NoKey, NoKey, NoKey) : b \in {"invalid", "null", "list", "empty"}}
    \cup {StripeRequest("dict", t, d, NoKey, NoKey, NoKey) :
            t \in EventTypes, d \in {NoKey, Null, "str"}}
    \cup {StripeRequest("dict", Checkout, "dict", o, NoKey, NoKey) : o \in {NoKey, Null, "str"}}
    \cup {StripeRequest("dict", Checkout, "dict", "dict", c, NoKey) : c \in {NoKey, Null, "str"}}
    \cup {StripeRequest("dict", t, "dict", "dict", "dict", e) :
            t \in EventTypes, e \in Emails \cup {NoKey, Null, ""}}

\* ------------------------------------------------------------ state machine
Init ==
    /\ env \in [url : BOOLEAN, key : BOOLEAN, create_ok : BOOLEAN]
    /\ supabase = SupabaseInit(env)
    /\ clients = <<>>
    /\ req = [endpoint |-> NoKey]
    /\ resp = Response(0, NoKey, 0)
    /\ calls = <<>>
    /\ payments = {}

Serve(r, res, max) ==
    /\ Len(res.clients) <= max
    /\ clients' = res.clients
    /\ req' = r
    /\ resp' = res.resp
    /\ calls' = res.calls
    /\ UNCHANGED <<env, supabase>>

PostTypeform ==
    \E r \in TypeformRequests, o \in InsertOutcomes :
        /\ Serve(r, handle_typeform_submission(supabase, clients, r, o), MaxClients)
        /\ UNCHANGED payments

PostStripe ==
    \E r \in StripeRequests, o \in UpdateOutcomes :
        LET res == handle_stripe_payment(supabase, clients, r, o) IN
        /\ Serve(r, res, MaxClients)
        /\ payments' = IF res.calls # <<>> /\ res.resp.status = 200
                       THEN payments \cup {res.calls[1].eq}
                       ELSE payments

GetHome ==
    /\ Serve([endpoint |-> "/"], Result(home(supabase), clients, <<>>), MaxClients)
    /\ UNCHANGED payments

GetHealth ==
    /\ Serve([endpoint |-> "/health"], Result(health, clients, <<>>), MaxClients)
    /\ UNCHANGED payments

Next == PostTypeform \/ PostStripe \/ GetHome \/ GetHealth

Spec == Init /\ [][Next]_vars

\* Form submissions alone, over every combination of present and missing keys.
PostForm ==
    \E r \in FormRequests, o \in InsertOutcomes :
        /\ Serve(r, handle_typeform_submission(supabase, clients, r, o), MaxForms)
        /\ UNCHANGED payments

NextForms == PostForm \/ GetHealth

SpecForms == Init /\ [][NextForms]_vars

\* ================================================================ properties
\* The request of the last step was a webhook call.
IsTypeform(r) == r.endpoint = Typeform
IsStripe(r) == r.endpoint = Stripe

\* A form payload of the documented shape with at least four answers.
ValidSubmission(r) ==
    /\ IsTypeform(r)
    /\ r.body = "dict" /\ r.form_response = "dict" /\ r.answers = "list"
    /\ Len(r.list) >= 4
    /\ \A i \in 1..4 : r.list[i].kind = "dict"

\* A form payload with fewer than four answers: a short list, or no list at all
\* because the form_response or the answers key is missing.
ShortSubmission(r) ==
    /\ IsTypeform(r)
    /\ \/ r.body = "empty"
       \/ r.body = "dict" /\ r.form_response = NoKey
       \/ r.body = "dict" /\ r.form_response = "dict" /\ r.answers = NoKey
       \/ r.body = "dict" /\ r.form_response = "dict" /\ r.answers = "list" /\ Len(r.list) < 4

\* No storage call of the step raised.
Returned(issued) == \A i \in 1..Len(issued) : issued[i].outcome # "raised"

\* The row a step appended.
Last(rows) == rows[Len(rows)]

\* The step stored exactly one new row, 'trialing' on plan 'pro', through exactly one
\* insert call, left the rows before it alone and answered 200.
OneTrialingRecord ==
    /\ Len(calls') = 1 /\ calls'[1].op = "insert" /\ calls'[1].table = "clients"
    /\ Len(clients') = Len(clients) + 1
    /\ SubSeq(clients', 1, Len(clients)) = clients
    /\ Last(clients').subscription_status = "trialing"
    /\ Last(clients').monthly_plan = "pro"
    /\ resp'.status = 200

\* C1 as stated: every valid form submission with at least four answers, whatever
\* follows the fourth, inserts exactly one row into 'clients', 'trialing' on plan
\* 'pro', and is answered 200.
C1_Original ==
    [][ValidSubmission(req') => OneTrialingRecord]_vars

\* C1 as amended: the same, when the storage client is initialised and the insert
\* call does not raise.
C1_Amended ==
    [][(supabase /\ ValidSubmission(req') /\ Returned(calls')) => OneTrialingRecord]_vars

\* A submission with answers beyond the fourth has been stored.
C1_Witness ==
    /\ supabase /\ ValidSubmission(req) /\ Len(req.list) > 4
    /\ resp.status = 200 /\ Len(clients) >= 2 /\ Len(calls) = 1
    /\ Last(clients).subscription_status = "trialing"

\* The step answered 400, issued no storage call and left the stored rows unchanged.
RejectedUntouched ==
    /\ resp'.status = 400
    /\ calls' = <<>>
    /\ clients' = clients

\* C2 as stated: every form submission with fewer than four answers (a missing
\* form_response or answers list included) is answered 400, issues no storage write
\* and leaves the stored rows unchanged.
C2_Original ==
    [][ShortSubmission(req') => RejectedUntouched]_vars

\* C2 as amended: the same, when the storage client is initialised.
C2_Amended ==
    [][(supabase /\ ShortSubmission(req')) => RejectedUntouched]_vars

\* A two-answer submission was rejected while rows were already stored.
C2_Witness ==
    /\ supabase /\ ShortSubmission(req) /\ req.body = "dict" /\ req.answers = "list"
    /\ Len(req.list) = 2 /\ resp.status = 400 /\ Len(clients) >= 1

\* A checkout-completed event whose nested path resolves to the e-mail e.
CheckoutFor(r, e) ==
    /\ IsStripe(r) /\ r.body = "dict" /\ r.type = Checkout
    /\ r.data = "dict" /\ r.object = "dict" /\ r.customer_details = "dict"
    /\ r.email = e

\* The step issued exactly one storage call: an update of 'clients' setting
\* subscription_status to 'active' where contact_email equals e.
OneUpdateCall(e) ==
    /\ Len(calls') = 1 /\ calls'[1].op = "update" /\ calls'[1].table = "clients"
    /\ calls'[1].eq = e
    /\ calls'[1].data = [subscription_status |-> "active"]

\* Every row whose contact_email is exactly e is 'active' with its other fields
\* as before; every other row is as before.
OnlyMatchingActivated(e) ==
    /\ Len(clients') = Len(clients)
    /\ \A i \in 1..Len(clients) :
        IF clients[i].contact_email = e
        THEN clients'[i] = [clients[i] EXCEPT !.subscription_status = "active"]
        ELSE clients'[i] = clients[i]

\* C3 as stated: every checkout-completed event with a resolvable customer e-mail e
\* issues exactly one update call, which sets subscription_status to 'active' on
\* every row whose contact_email equals e exactly, and leaves the rows with another
\* e-mail, and the other fields of the matching rows, unchanged.
C3_Original ==
    [][\A e \in Emails :
        CheckoutFor(req', e) => (OneUpdateCall(e) /\ OnlyMatchingActivated(e))]_vars

\* C3 as amended: when the storage client is initialised, exactly one update call
\* is issued; when that call does not raise, its effect is the one stated.
C3_Amended ==
    [][\A e \in Emails :
        (supabase /\ CheckoutFor(req', e))
            => /\ OneUpdateCall(e)
               /\ Returned(calls') => OnlyMatchingActivated(e)]_vars

\* An event for a@b.com activated a row while a row for A@B.com stayed 'trialing'.
C3_Witness ==
    /\ CheckoutFor(req, "a@b.com") /\ resp.status = 200 /\ Len(calls) = 1
    /\ \E i, j \in 1..Len(clients) :
        /\ clients[i].contact_email = "a@b.com"
        /\ clients[i].subscription_status = "active"
        /\ clients[j].contact_email = "A@B.com"
        /\ clients[j].subscription_status = "trialing"

\* An event (a JSON object) of another type, or a checkout-completed event on whose
\* nested path data.object.customer_details.email a key is missing.
NoEmailEvent(r) ==
    /\ IsStripe(r) /\ r.body = "dict"
    /\ \/ r.type # Checkout
       \/ r.data = NoKey
       \/ r.data = "dict" /\ r.object = NoKey
       \/ r.data = "dict" /\ r.object = "dict" /\ r.customer_details = NoKey
       \/ r.data = "dict" /\ r.object = "dict" /\ r.customer_details = "dict"
            /\ r.email = NoKey

\* The step issued no storage call, left the rows unchanged and answered 200.
SilentNoOp ==
    /\ calls' = <<>>
    /\ clients' = clients
    /\ resp'.status = 200

\* C4 as stated: every event whose type is not checkout-completed, and every
\* checkout-completed event whose nested e-mail path is missing, issues no update
\* call, leaves the stored rows unchanged and is answered 200.
C4_Original ==
    [][NoEmailEvent(req') => SilentNoOp]_vars

\* C4 as amended: the same, when the storage client is initialised.
C4_Amended ==
    [][(supabase /\ NoEmailEvent(req')) => SilentNoOp]_vars

\* A checkout-completed event without customer_details was acknowledged while a
\* 'trialing' row was stored.
C4_Witness ==
    /\ supabase /\ NoEmailEvent(req) /\ req.type = Checkout
    /\ req.object = "dict" /\ req.customer_details = NoKey
    /\ resp.status = 200 /\ calls = <<>>
    /\ \E i \in 1..Len(clients) : clients[i].subscription_status = "trialing"

\* An 'invoice.paid' event was acknowledged while a 'trialing' row was stored.
C4_WitnessOtherType ==
    /\ supabase /\ NoEmailEvent(req) /\ req.type = "invoice.paid"
    /\ req.email = "a@b.com" /\ resp.status = 200 /\ calls = <<>>
    /\ \E i \in 1..Len(clients) :
        clients[i].contact_email = "a@b.com" /\ clients[i].subscription_status = "trialing"

\* C5: when either required environment variable was absent at start-up, the
\* storage client is null, and every POST to /typeform-webhook and /stripe-webhook,
\* whatever its body, is answered with an explicit 500, issues no storage call and
\* stores nothing; every request served has its response.
C5_NullClientAnswers500 ==
    (~env.url \/ ~env.key)
        => /\ ~supabase
           /\ clients = <<>>
           /\ calls = <<>>
           /\ (IsTypeform(req) \/ IsStripe(req))
                => (resp.status = 500 /\ resp.error = "Database connection failed")
           /\ req.endpoint # NoKey => resp.status \in {200, 400, 500}

\* Without the service key, a complete form submission was answered 500.
C5_Witness ==
    /\ env.url /\ ~env.key
    /\ ValidSubmission(req) /\ resp.status = 500

\* Without the endpoint URL, a checkout-completed event was answered 500.
C5_WitnessStripe ==
    /\ ~env.url /\ env.key
    /\ CheckoutFor(req, "a@b.com") /\ resp.status = 500

\* A webhook request whose handling raises before any storage call: the body is
\* not JSON or not an object, or a value on the path the handler walks is present
\* but is not of the shape the handler reads.
UnexpectedShape(r) ==
    \/ /\ IsTypeform(r)
       /\ \/ r.body \in {"invalid", "list"}
          \/ r.body = "dict" /\ r.form_response \in {Null, "str"}
          \/ r.body = "dict" /\ r.form_response = "dict" /\ r.answers = Null
          \/ /\ r.body = "dict" /\ r.form_response = "dict" /\ r.answers = "list"
             /\ Len(r.list) >= 4
             /\ \E i \in 1..4 : r.list[i].kind # "dict"
    \/ /\ IsStripe(r)
       /\ \/ r.body \in {"invalid", "null", "list"}
          \/ /\ r.body = "dict" /\ r.type = Checkout
             /\ \/ r.data \in {Null, "str"}
                \/ r.data = "dict" /\ r.object \in {Null, "str"}
                \/ r.data = "dict" /\ r.object = "dict"
                     /\ r.customer_details \in {Null, "str"}

ErrorTexts == {"BadRequest", "AttributeError", "TypeError", "StorageError"}

\* C6: in both webhook handlers, a request during whose handling an exception is
\* raised (the storage call fails, or the body or an answer has an unexpected
\* shape) is answered 500 with the error text; the failed call is not issued again,
\* no row is created or modified, and the state later requests are served from (the
\* client and the rows) is what it was before the request.
C6_ExceptionIs500WithoutEffect ==
    [][(supabase /\ (UnexpectedShape(req') \/ ~Returned(calls')))
        => /\ resp'.status = 500
           /\ resp'.error \in ErrorTexts
           /\ Len(calls') <= 1
           /\ clients' = clients
           /\ supabase' = supabase
           /\ payments' = payments]_vars

\* An insert raised while rows were stored: 500, one call, the rows as they were.
C6_Witness ==
    /\ ValidSubmission(req) /\ Len(calls) = 1 /\ calls[1].outcome = "raised"
    /\ resp.status = 500 /\ resp.error = "StorageError" /\ Len(clients) = 1

\* An event whose customer_details is null was answered 500.
C6_WitnessShape ==
    /\ supabase /\ IsStripe(req) /\ req.body = "dict" /\ req.customer_details = Null
    /\ resp.status = 500 /\ resp.error = "AttributeError"

\* What the spec says a field is: the answer's value under its key, or the default.
Field(value, default) == IF value = NoKey THEN default ELSE value

\* The row has the four fields the spec derives from the submission.
CarriesAnswers(row, r) ==
    /\ row.business_name = Field(r.list[1].text, "Unknown Business")
    /\ row.contact_email = Field(r.list[2].email, "no-email@example.com")
    /\ row.prospecting_niche = Field(r.list[3].text, "Not specified")
    /\ row.prospecting_location = Field(r.list[4].text, "Not specified")

\* The step appended one independent 'trialing' row carrying the submission's
\* fields, under an id no earlier row has, and answered 200.
StoredAgain ==
    /\ Len(clients') = Len(clients) + 1
    /\ SubSeq(clients', 1, Len(clients)) = clients
    /\ CarriesAnswers(Last(clients'), req')
    /\ Last(clients').subscription_status = "trialing"
    /\ \A i \in 1..Len(clients) : clients[i].id # Last(clients').id
    /\ resp'.status = 200

\* A row with the submission's fields is already stored.
AlreadyStored(r) == \E i \in 1..Len(clients) : CarriesAnswers(clients[i], r)

\* C7: form submission is not idempotent. A valid submission whose answers
\* (e-mail included) are already stored is neither rejected nor merged on that
\* account: it issues its own insert of the same values, which adds one more
\* independent row, 'trialing', so that n equal submissions leave n rows; only an
\* insert call that raises keeps a submission from being stored.
C7_ResubmissionStoredAgain ==
    [][(ValidSubmission(req') /\ AlreadyStored(req'))
        => /\ Len(calls') = 1 /\ calls'[1].op = "insert"
           /\ CarriesAnswers(calls'[1].data, req')
           /\ Returned(calls') => StoredAgain
           /\ ~Returned(calls') => resp'.error = "StorageError"]_vars

\* The same answers submitted three times: three rows that differ in their id only.
C7_Witness ==
    /\ ValidSubmission(req) /\ resp.status = 200 /\ Len(clients) = 3
    /\ \A i \in 1..3 : CarriesAnswers(clients[i], req)
    /\ \A i \in 1..3 : clients[i].subscription_status = "trialing"
    /\ \A i, j \in 1..3 : i # j => clients[i].id # clients[j].id

\* C8: field extraction is positional with defaults. For a payload with at least
\* four answers, a missing 'text' key on answer 0, 2 or 3 or a missing 'email' key
\* on answer 1 never fails the request: it is refused only when the storage client
\* is null or the insert call raises. The row it creates carries the default of
\* every field whose key is missing and the given value of every other.
C8_MissingKeysTakeDefaults ==
    [][ValidSubmission(req')
        => /\ resp'.status # 200 => (~supabase \/ ~Returned(calls'))
           /\ resp'.status = 200
                => /\ Len(clients') = Len(clients) + 1
                   /\ CarriesAnswers(Last(clients'), req')
           /\ Len(clients') > Len(clients) => resp'.status = 200]_vars

\* A submission without the 'email' key on answer 1 and without the 'text' key on
\* answer 3, the other two present, was stored with two defaults and two given values.
C8_Witness ==
    /\ ValidSubmission(req) /\ resp.status = 200 /\ Len(clients) = 1
    /\ req.list[2].email = NoKey /\ req.list[4].text = NoKey
    /\ clients[1].contact_email = "no-email@example.com"
    /\ clients[1].prospecting_location = "Not specified"
    /\ clients[1].business_name = "Acme Dental"
    /\ clients[1].prospecting_niche = "Dentists"

Statuses == {"trialing", "active"}

\* C9: over any sequence of form submissions and payment events, every stored row
\* is 'trialing' or 'active'; a row is 'trialing' when inserted; a status changes
\* only from 'trialing' to 'active', and only in a checkout-completed event whose
\* e-mail equals the row's contact_email; an 'active' row stays 'active', also under
\* a repeated matching event; no row is removed.
C9_StatusOnlyTrialingToActive ==
    [][/\ Len(clients') >= Len(clients)
       /\ \A i \in 1..Len(clients') : clients'[i].subscription_status \in Statuses
       /\ \A i \in (Len(clients) + 1)..Len(clients') :
            clients'[i].subscription_status = "trialing"
       /\ \A i \in 1..Len(clients) :
            /\ clients[i].subscription_status = "active"
                => clients'[i].subscription_status = "active"
            /\ clients'[i].subscription_status # clients[i].subscription_status
                => /\ clients[i].subscription_status = "trialing"
                   /\ clients'[i].subscription_status = "active"
                   /\ CheckoutFor(req', clients[i].contact_email)]_vars

\* After a checkout-completed event for a@b.com: both rows of that e-mail are
\* 'active', the row of the e-mail differing in case is still 'trialing'.
C9_Witness ==
    /\ CheckoutFor(req, "a@b.com") /\ resp.status = 200 /\ Len(clients) = 3
    /\ "a@b.com" \in payments
    /\ clients[1].contact_email = "a@b.com" /\ clients[1].subscription_status = "active"
    /\ clients[2].contact_email = "A@B.com" /\ clients[2].subscription_status = "trialing"
    /\ clients[3].contact_email = "a@b.com" /\ clients[3].subscription_status = "active"

\* No stored row has the e-mail e.
Unknown(e) == \A i \in 1..Len(clients) : clients[i].contact_email # e

\* C10: a checkout-completed event for e processed while no row has the e-mail e
\* changes nothing and is answered 200; a row inserted for an e-mail whose payment
\* was processed earlier is 'trialing', and a 'trialing' row whose payment was
\* processed earlier stays 'trialing' in every step that is not a further
\* checkout-completed event for its e-mail: the earlier payment is not replayed.
C10_EarlierPaymentNotReplayed ==
    [][/\ \A e \in Emails :
            (CheckoutFor(req', e) /\ Len(calls') = 1 /\ Returned(calls') /\ Unknown(e))
                => (clients' = clients /\ resp'.status = 200 /\ e \in payments')
       /\ (Len(clients') > Len(clients) /\ Last(clients').contact_email \in payments)
            => Last(clients').subscription_status = "trialing"
       /\ \A i \in 1..Len(clients) :
            (/\ clients[i].contact_email \in payments
             /\ clients[i].subscription_status = "trialing"
             /\ ~CheckoutFor(req', clients[i].contact_email))
                => (/\ Len(clients') >= i
                    /\ clients'[i].subscription_status = "trialing")]_vars

\* The payment for a@b.com was processed before its form submission: the row
\* inserted afterwards is 'trialing', and still is after an event for A@B.com.
C10_Witness ==
    /\ CheckoutFor(req, "A@B.com") /\ resp.status = 200
    /\ payments = {"a@b.com", "A@B.com"}
    /\ Len(clients) = 1
    /\ clients[1].contact_email = "a@b.com"
    /\ clients[1].subscription_status = "trialing"

====
